---- MODULE Spec2Model ----
(***************************************************************************)
(* UniPost dashboard: the post generation pipeline of Texts                *)
(* (src/texts/main.py) with the session state it writes.                   *)
(*                                                                         *)
(* A string is modelled by its shape: `pre` leading whitespace characters, *)
(* a core of `body` characters that starts and ends with a non-whitespace  *)
(* character, `post` trailing whitespace characters, and `id`, which tells *)
(* cores of different content apart.  str.strip() and len() are computed   *)
(* on that shape.                                                          *)
(*                                                                         *)
(* One pipeline run is a sequence of steps, one per call of an external    *)
(* collaborator; pc names the collaborator function called next.  `calls`  *)
(* is the log of the collaborator calls of the current script run and      *)
(* `notices` the log of its st.toast messages.                             *)
(***************************************************************************)
EXTENDS Integers, Sequences, FiniteSets, TLC

VARIABLES
    permissions,     \* class_permissions handed to create()
    session,         \* st.session_state: a dict, DOMAIN session = its keys
    redis,           \* the external cache store behind RedisService
    store,           \* the external content store behind TextsRequest
    pc,              \* position of the script run
    runs_left,       \* pipeline runs the behaviour may still start
    topic_input,     \* the topic field when "Gerar Post" was pressed
    search_field,    \* the search field when "Gerar Post" was pressed
    user_topic, search_query, platform,
    raw_texts, texts,
    similar_texts, prompt_context, generated_text,
    approval_sent, text_data, send_result,
    calls,           \* collaborator calls of this script run, in order
    notices,         \* st.toast messages of this script run, in order
    writes,          \* session keys this script run assigned, in order
    progress,        \* progress_bar/status_text: "none", "shown", "cleared"
    buttons,         \* the action buttons rendered with the result
    references_view, \* the references and their summary in the result view
    widgets,         \* the widgets of the update page and the record it edits
    outcome          \* how the script run ended

vars == <<permissions, session, redis, store, pc, runs_left, topic_input,
          search_field,
          user_topic, search_query, platform, raw_texts, texts,
          similar_texts, prompt_context, generated_text, approval_sent,
          text_data, send_result, calls, notices, writes, progress, buttons,
          references_view, widgets, outcome>>

-----------------------------------------------------------------------------
(* Bounds of the model *)

MaxPad == 1        \* whitespace characters on either side of a topic
MaxRefs == 1       \* references in a ranking
MaxRaw == 2        \* raw texts returned by the embedding search
MaxRuns == 1       \* pipeline runs in one behaviour
MaxPreloaded == 1  \* cache keys already filled when the session starts

-----------------------------------------------------------------------------
(* Strings *)

Str(pre, body, post, id) == [pre |-> pre, body |-> body, post |-> post, id |-> id]

EmptyStr == Str(0, 0, 0, 0)

StrLen(s) == s.pre + s.body + s.post

Strip(s) == IF s.body = 0 THEN EmptyStr ELSE Str(0, s.body, 0, s.id)

StrTruthy(s) == StrLen(s) > 0

-----------------------------------------------------------------------------
(* Topic validation *)

MinTopicLen == 5
MaxTopicLen == 500
CreateMinLen == 5
CreateMaxLen == 500

\* Texts.validate_topic: <<valid, topic>>
validate_topic(topic) ==
    IF ~StrTruthy(topic) \/ StrLen(Strip(topic)) < MinTopicLen
    THEN <<FALSE, topic>>
    ELSE IF StrLen(Strip(topic)) > MaxTopicLen
         THEN <<FALSE, topic>>
         ELSE <<TRUE, Strip(topic)>>

\* Mutant of CreateValidation: the lengths are taken without strip()
CreateValidationUntrimmed(text_topic) ==
    IF ~StrTruthy(text_topic)
    THEN "fill_topic"
    ELSE IF StrLen(text_topic) < CreateMinLen
         THEN "min_chars"
         ELSE IF StrLen(text_topic) > CreateMaxLen
              THEN "max_chars"
              ELSE "ok"

\* The validation chain of Texts.create: the toast it shows, or "ok"
CreateValidation(text_topic) ==
    IF ~StrTruthy(text_topic) \/ ~StrTruthy(Strip(text_topic))
    THEN "fill_topic"
    ELSE IF StrLen(Strip(text_topic)) < CreateMinLen
         THEN "min_chars"
         ELSE IF StrLen(Strip(text_topic)) > CreateMaxLen
              THEN "max_chars"
              ELSE "ok"

-----------------------------------------------------------------------------
(* Inputs *)

BodyLens == {MinTopicLen - 1, MinTopicLen, MaxTopicLen, MaxTopicLen + 1}

\* What the user can have typed in the topic field
Topics ==
    {Str(pre, 0, 0, 0) : pre \in 0..MaxPad}
    \cup {Str(pad, body, pad, 1) : pad \in 0..MaxPad, body \in BodyLens}

\* What the user can have typed in the search field
SearchInputs == {EmptyStr, Str(1, 3, 1, 2)}

GENERIC == "GENERIC"
PlatformOptions == {GENERIC, "FCB"}

DefaultTone == "informal"
DefaultCreativity == "equilibrado"
DefaultLength == "Exato (300 palavras)"
Token == "token"

\* The queries a pipeline run can be started with
Queries ==
    (SearchInputs \ {EmptyStr})
    \cup {validate_topic(t)[2] : t \in {u \in Topics : validate_topic(u)[1]}}

-----------------------------------------------------------------------------
(* Values exchanged with the collaborators *)

None == "<None>"

\* The raw texts the embedding search can find, in the order it finds them
Corpus == <<"raw1", "raw2", "raw3">>
RawTexts == {Corpus[i] : i \in DOMAIN Corpus}
RawTextLists == {SubSeq(Corpus, 1, n) : n \in 0..MaxRaw}

\* A scored reference (text, score); the score in hundredths
Scores == {50, 80}
Refs == RawTexts \X Scores

\* The ranking service gives every candidate a score ...
Scorings(candidates) == [DOMAIN candidates -> Scores]

Scored(candidates, scoring) ==
    [i \in DOMAIN candidates |-> <<candidates[i], scoring[i]>>]

\* ... and orders them by score, descending, equal scores in candidate order
RECURSIVE InsertByScore(_, _)
InsertByScore(ref, sorted) ==
    IF sorted = <<>> THEN <<ref>>
    ELSE IF Head(sorted)[2] > ref[2]
         THEN <<Head(sorted)>> \o InsertByScore(ref, Tail(sorted))
         ELSE <<ref>> \o sorted

RECURSIVE SortByScore(_)
SortByScore(refs) ==
    IF refs = <<>> THEN <<>>
    ELSE InsertByScore(Head(refs), SortByScore(Tail(refs)))

\* What find_similar_texts_via_api can return for the candidates: nothing,
\* or the candidates scored and ordered
RankingsOf(candidates) ==
    {<<>>} \cup {SortByScore(Scored(candidates, scoring)) :
                    scoring \in Scorings(candidates)}

\* The rankings an earlier run can have written to the cache
Rankings == UNION {RankingsOf(SubSeq(Corpus, 1, n)) : n \in 0..MaxRefs}

GeneratedTexts == {None, "", "post A", "post B"}

\* Python truthiness of a str-or-None
TextTruthy(t) == t \notin {None, ""}

\* Python truthiness of a list
ListTruthy(l) == Len(l) > 0

\* A dict-or-None: tag "none", or tag "dict" with the dict's items
NoneDict == [tag |-> "none"]
Dict(items) == [tag |-> "dict", items |-> items]
DictTruthy(d) == d.tag = "dict" /\ DOMAIN d.items # {}
\* Mutant of DictGet: the key is never found
DictGetDefault(d, key, default) == default

DictGet(d, key, default) ==
    IF key \in DOMAIN d.items THEN d.items[key] ELSE default

Reversed(seq) == [i \in 1..Len(seq) |-> seq[Len(seq) + 1 - i]]

\* Mutant of SimilarDict: the ranking is cached in ascending order
SimilarDictAscending(ranking) ==
    Dict([k \in {"similar_texts"} |-> Reversed(ranking)])

SimilarDict(ranking) == Dict([k \in {"similar_texts"} |-> ranking])

-----------------------------------------------------------------------------
(* The external stores *)

\* RedisService.get_cached_embeddings on the store
RedisGet(query) == redis[query]

\* RedisService.cache_embeddings on the store
RedisPut(query, value) == [redis EXCEPT ![query] = value]

\* TextsRequest.create_text on the store: the record gets the next id
StoreCreate(record) ==
    Append(store, [id |-> Len(store) + 1, theme |-> record.theme,
                   platform |-> record.platform, content |-> record.content,
                   is_approved |-> record.is_approved])

-----------------------------------------------------------------------------
(* st.session_state *)

SessionHas(key) == key \in DOMAIN session

SessionSet(key, value) ==
    [k \in DOMAIN session \cup {key} |-> IF k = key THEN value ELSE session[k]]

SessionDel(key) == [k \in DOMAIN session \ {key} |-> session[k]]

-----------------------------------------------------------------------------
(* The script run *)

\* The permission sets a user of the page can hold
PermissionSets ==
    {{}, {"read"}, {"create"}, {"read", "create", "update"}}

Steps == <<"get_cached_embeddings", "search_texts", "treat_text_content",
           "find_similar_texts_via_api", "cache_embeddings",
           "create_prompt_context", "generate_text_via_llm",
           "send_for_approval", "create_text", "extract_word_count">>

Call(fn, args, ret) == [fn |-> fn, args |-> args, ok |-> TRUE, ret |-> ret]
Raised(fn, args) == [fn |-> fn, args |-> args, ok |-> FALSE]

NoButtons == [rendered |-> FALSE]
NoTextData == [theme |-> EmptyStr]
NoView == [rendered |-> FALSE]
NoWidgets == [page |-> "none"]

\* The locals of a script run that has called nothing yet
FreshLocals ==
    /\ raw_texts' = <<>>
    /\ texts' = <<>>
    /\ similar_texts' = <<>>
    /\ prompt_context' = NoneDict
    /\ generated_text' = None
    /\ approval_sent' = FALSE
    /\ text_data' = NoTextData
    /\ send_result' = None
    /\ calls' = <<>>
    /\ writes' = <<>>
    /\ buttons' = NoButtons
    /\ references_view' = NoView
    /\ widgets' = NoWidgets

\* The initial contents of the cache: at most MaxPreloaded queries cached
PreloadedValues ==
    {SimilarDict(r) : r \in Rankings} \cup {Dict([k \in {"other"} |-> <<>>])}

\* st.session_state after login
LoggedIn ==
    [k \in {"authenticated", "user_token", "username"} |->
        CASE k = "authenticated" -> "True"
          [] k = "user_token" -> Token
          [] OTHER -> "user"]

\* The 'last_generated' a successful run left earlier in the session
EarlierGenerated ==
    [text |-> "post 0",
     platform |-> "Generico",
     tone |-> DefaultTone,
     creativity |-> DefaultCreativity,
     length |-> DefaultLength,
     text_data |-> [theme |-> Str(0, MinTopicLen, 0, 1), platform |-> GENERIC,
                    content |-> "post 0", is_approved |-> FALSE],
     approved |-> FALSE,
     theme |-> Str(0, MinTopicLen, 0, 1)]

Init ==
    /\ permissions \in PermissionSets
    /\ session \in {LoggedIn, LoggedIn @@ ("last_generated" :> EarlierGenerated)}
    /\ redis \in {r \in [Queries -> {NoneDict} \cup PreloadedValues] :
                    Cardinality({q \in Queries : r[q] # NoneDict})
                        <= MaxPreloaded}
    /\ store = <<>>
    /\ pc = "idle"
    /\ runs_left = MaxRuns
    /\ topic_input = EmptyStr
    /\ search_field = EmptyStr
    /\ user_topic = EmptyStr
    /\ search_query = EmptyStr
    /\ platform = ""
    /\ raw_texts = <<>>
    /\ texts = <<>>
    /\ similar_texts = <<>>
    /\ prompt_context = NoneDict
    /\ generated_text = None
    /\ approval_sent = FALSE
    /\ text_data = NoTextData
    /\ send_result = None
    /\ calls = <<>>
    /\ notices = <<>>
    /\ writes = <<>>
    /\ progress = "none"
    /\ buttons = NoButtons
    /\ references_view = NoView
    /\ widgets = NoWidgets
    /\ outcome = "none"

-----------------------------------------------------------------------------
(* The decisions of _process_text_generation_improved *)

\* Mutant of AfterCacheLookup: the cached value is ignored
AfterCacheLookupAlwaysSearch(cached_embeddings) == "search_texts"

AfterCacheLookup(cached_embeddings) ==
    IF DictTruthy(cached_embeddings) THEN "create_prompt_context"
                                     ELSE "search_texts"

\* Mutant of AfterSearch: an empty search result ends the run
AfterSearchEmptyEnds(raw) ==
    IF ListTruthy(raw) THEN "treat_text_content" ELSE "done"

AfterSearch(raw) ==
    IF ListTruthy(raw) THEN "treat_text_content" ELSE "create_prompt_context"

\* Mutant of AfterTreat: the ranking is asked for in any case
AfterTreatAlwaysRanks(treated) == "find_similar_texts_via_api"

AfterTreat(treated) ==
    IF ListTruthy(treated) THEN "find_similar_texts_via_api"
                           ELSE "create_prompt_context"

\* Mutant of AfterRanking: the ranking is cached in any case
\* Mutant of AfterRanking: an empty ranking is asked for again
AfterRankingRetries(ranking) ==
    IF ListTruthy(ranking) THEN "cache_embeddings"
                           ELSE "find_similar_texts_via_api"

AfterRankingAlwaysCaches(ranking) == "cache_embeddings"

AfterRanking(ranking) ==
    IF ListTruthy(ranking) THEN "cache_embeddings" ELSE "create_prompt_context"

\* Mutant of AfterGeneration: the text is dispatched in any case
AfterGenerationAlwaysDispatches(text) == "send_for_approval"

AfterGeneration(text) ==
    IF ~TextTruthy(text) THEN "done" ELSE "send_for_approval"

\* Mutant of AfterApproval: a failed dispatch ends the run
AfterApprovalFailureEnds(sent) == IF sent THEN "create_text" ELSE "done"

AfterApproval(sent) == "create_text"

\* Mutant of AfterCreateText: a failed create_text ends the run
AfterCreateTextFailureEnds(ok) ==
    IF ok THEN "extract_word_count" ELSE "done"

\* Mutant of AfterCreateText: the text is dispatched after it was persisted
AfterCreateTextThenDispatch(ok) == "send_for_approval"

\* create_text has a try/except of its own: both outcomes go on
AfterCreateText(ok) == "extract_word_count"

\* Mutant of TextData: the record is created as approved
TextDataApproved(topic, plat, text) ==
    [theme |-> topic,
     platform |-> IF plat # "" THEN plat ELSE GENERIC,
     content |-> text,
     is_approved |-> TRUE]

TextData(topic, plat, text) ==
    [theme |-> topic,
     platform |-> IF plat # "" THEN plat ELSE GENERIC,
     content |-> text,
     is_approved |-> FALSE]

\* similar_texts[:n]
Top(refs, n) == SubSeq(refs, 1, IF Len(refs) < n THEN Len(refs) ELSE n)


\* The relevance thresholds of the result view, in hundredths of a score
HighScore == 70
MediumScore == 40

\* Mutant of relevance_text: a score on a threshold falls in the lower bucket
relevance_text_above(score) ==
    IF score > HighScore THEN "Alta"
    ELSE IF score > MediumScore THEN "Media" ELSE "Baixa"

relevance_text(score) ==
    IF score >= HighScore THEN "Alta"
    ELSE IF score >= MediumScore THEN "Media" ELSE "Baixa"

\* sum(1 for _, score in similar_texts if score >= 0.7)
high_relevance(refs) ==
    Cardinality({i \in DOMAIN refs : refs[i][2] >= HighScore})

\* The references expander of the result view
ReferencesView(refs) ==
    IF ListTruthy(refs)
    THEN [rendered |-> TRUE,
          cards |-> [i \in DOMAIN Top(refs, 5) |->
                        [score |-> refs[i][2],
                         relevance_text |-> relevance_text(refs[i][2])]],
          total |-> Len(refs),
          high_relevance |-> high_relevance(refs)]
    ELSE [rendered |-> TRUE, cards |-> <<>>, total |-> 0,
          high_relevance |-> 0]

PlatformName(plat) ==
    IF plat = "" THEN "Generico" ELSE IF plat = "FCB" THEN "Facebook"
                                                      ELSE "Generico"

LastGenerated ==
    [text |-> generated_text,
     platform |-> PlatformName(platform),
     tone |-> DefaultTone,
     creativity |-> DefaultCreativity,
     length |-> DefaultLength,
     text_data |-> text_data,
     approved |-> approval_sent,
     theme |-> user_topic]

\* Mutant of CallArgs: the ranking is cached under the topic
CallArgsCacheByTopic(step) ==
    CASE step = "get_cached_embeddings" -> <<search_query>>
      [] step = "search_texts" -> <<search_query>>
      [] step = "treat_text_content" -> <<raw_texts>>
      [] step = "find_similar_texts_via_api" -> <<user_topic, texts>>
      [] step = "cache_embeddings" ->
            <<user_topic, SimilarDict(similar_texts)>>
      [] step = "create_prompt_context" ->
            <<user_topic, similar_texts, platform, DefaultTone,
              DefaultCreativity, DefaultLength>>
      [] step = "generate_text_via_llm" -> <<prompt_context>>
      [] step = "send_for_approval" -> <<generated_text, user_topic>>
      [] step = "create_text" -> <<Token, text_data>>
      [] step = "extract_word_count" -> <<DefaultLength>>

\* The arguments of the call the run is about to make
CallArgs(step) ==
    CASE step = "get_cached_embeddings" -> <<search_query>>
      [] step = "search_texts" -> <<search_query>>
      [] step = "treat_text_content" -> <<raw_texts>>
      [] step = "find_similar_texts_via_api" -> <<user_topic, texts>>
      [] step = "cache_embeddings" ->
            <<search_query, SimilarDict(similar_texts)>>
      [] step = "create_prompt_context" ->
            <<user_topic, similar_texts, platform, DefaultTone,
              DefaultCreativity, DefaultLength>>
      [] step = "generate_text_via_llm" -> <<prompt_context>>
      [] step = "send_for_approval" -> <<generated_text, user_topic>>
      [] step = "create_text" -> <<Token, text_data>>
      [] step = "extract_word_count" -> <<DefaultLength>>

Returned(ret) == calls' = Append(calls, Call(pc, CallArgs(pc), ret))

Notice(msg) == notices' = Append(notices, msg)

-----------------------------------------------------------------------------
(* Texts.create: the user presses "Gerar Post" *)

\* The arguments create hands to the pipeline: topic, query, platform
\* Mutant of PipelineArgs: the topic is handed over as typed
PipelineArgsUntrimmed(text_topic, search_input, selected_platform) ==
    <<text_topic,
      IF StrTruthy(search_input) THEN search_input ELSE Strip(text_topic),
      IF selected_platform # GENERIC THEN selected_platform ELSE "">>

\* The arguments create hands to the pipeline: topic, query, platform
PipelineArgs(text_topic, search_input, selected_platform) ==
    <<Strip(text_topic),
      IF StrTruthy(search_input) THEN search_input ELSE Strip(text_topic),
      IF selected_platform # GENERIC THEN selected_platform ELSE "">>

Generate(text_topic) ==
    /\ pc \in {"idle", "done"}
    /\ "create" \in permissions
    /\ FreshLocals
    /\ topic_input' = text_topic
    /\ LET previous == IF SessionHas("last_generated")
                       THEN <<"previous_loaded">> ELSE <<>>
           verdict == CreateValidation(text_topic)
       IN IF verdict # "ok"
          THEN /\ notices' = Append(previous, verdict)
               /\ user_topic' = EmptyStr
               /\ search_query' = EmptyStr
               /\ platform' = ""
               /\ progress' = "none"
               /\ outcome' = "validation_failed"
               /\ pc' = "idle"
               /\ runs_left' = runs_left
               /\ search_field' \in SearchInputs
          ELSE /\ runs_left > 0
               /\ \E search_input \in SearchInputs,
                     selected_platform \in PlatformOptions :
                     LET args == PipelineArgs(text_topic, search_input,
                                              selected_platform)
                     IN /\ search_field' = search_input
                        /\ user_topic' = args[1]
                        /\ search_query' = args[2]
                        /\ platform' = args[3]
               /\ notices' = previous
               /\ progress' = "shown"
               /\ outcome' = "running"
               /\ pc' = "get_cached_embeddings"
               /\ runs_left' = runs_left - 1
    /\ UNCHANGED <<permissions, session, redis, store>>

-----------------------------------------------------------------------------
(* Texts._process_text_generation_improved, one step per collaborator call *)

GetCachedEmbeddings ==
    /\ pc = "get_cached_embeddings"
    /\ LET cached_embeddings == RedisGet(search_query)
       IN /\ Returned(cached_embeddings)
          /\ similar_texts' =
                IF DictTruthy(cached_embeddings)
                THEN DictGet(cached_embeddings, "similar_texts", <<>>)
                ELSE similar_texts
          /\ pc' = AfterCacheLookup(cached_embeddings)
    /\ UNCHANGED <<permissions, session, redis, store, runs_left,
                   topic_input, search_field, user_topic, search_query, platform,
                   raw_texts, texts, prompt_context, generated_text,
                   approval_sent, text_data, send_result, notices, writes,
                   progress, buttons,
                   references_view, widgets, outcome>>

SearchTexts ==
    /\ pc = "search_texts"
    /\ \E raw \in RawTextLists :
          /\ Returned(raw)
          /\ raw_texts' = raw
          /\ IF ListTruthy(raw)
             THEN UNCHANGED <<similar_texts, notices>>
             ELSE /\ Notice("no_api_refs")
                  /\ similar_texts' = <<>>
          /\ pc' = AfterSearch(raw)
    /\ UNCHANGED <<permissions, session, redis, store, runs_left,
                   topic_input, search_field, user_topic, search_query, platform, texts,
                   prompt_context, generated_text, approval_sent, text_data,
                   send_result, writes, progress, buttons,
                   references_view, widgets, outcome>>

\* What normalization can make of the raw texts: it keeps a prefix of them
Treated(raw) == {SubSeq(raw, 1, n) : n \in 0..Len(raw)}

TreatTextContent ==
    /\ pc = "treat_text_content"
    /\ \E treated \in Treated(raw_texts) :
          /\ Returned(treated)
          /\ texts' = treated
          /\ IF ListTruthy(treated)
             THEN UNCHANGED <<similar_texts, notices>>
             ELSE /\ Notice("invalid_after_treatment")
                  /\ similar_texts' = <<>>
          /\ pc' = AfterTreat(treated)
    /\ UNCHANGED <<permissions, session, redis, store, runs_left,
                   topic_input, search_field, user_topic, search_query, platform,
                   raw_texts, prompt_context, generated_text, approval_sent,
                   text_data, send_result, writes, progress, buttons,
                   references_view, widgets, outcome>>

FindSimilarTexts ==
    /\ pc = "find_similar_texts_via_api"
    /\ \E ranking \in RankingsOf(texts) :
          /\ Returned(ranking)
          /\ IF ListTruthy(ranking)
             THEN /\ similar_texts' = ranking
                  /\ UNCHANGED notices
             ELSE /\ Notice("no_similar_refs")
                  /\ similar_texts' = <<>>
          /\ pc' = AfterRanking(ranking)
    /\ UNCHANGED <<permissions, session, redis, store, runs_left,
                   topic_input, search_field, user_topic, search_query, platform,
                   raw_texts, texts, prompt_context, generated_text,
                   approval_sent, text_data, send_result, writes, progress,
                   buttons,
                   references_view, widgets, outcome>>

CacheEmbeddings ==
    /\ pc = "cache_embeddings"
    /\ Returned(None)
    /\ redis' = RedisPut(search_query, SimilarDict(similar_texts))
    /\ pc' = "create_prompt_context"
    /\ UNCHANGED <<permissions, session, store, runs_left, topic_input, search_field,
                   user_topic, search_query, platform, raw_texts, texts,
                   similar_texts, prompt_context, generated_text,
                   approval_sent, text_data, send_result, notices, writes,
                   progress, buttons,
                   references_view, widgets, outcome>>

CreatePromptContext ==
    /\ pc = "create_prompt_context"
    /\ LET context == [tag |-> "context", topic |-> user_topic,
                       references |-> similar_texts, platform |-> platform]
       IN /\ Returned(context)
          /\ prompt_context' = context
    /\ pc' = "generate_text_via_llm"
    /\ UNCHANGED <<permissions, session, redis, store, runs_left,
                   topic_input, search_field, user_topic, search_query, platform,
                   raw_texts, texts, similar_texts, generated_text,
                   approval_sent, text_data, send_result, notices, writes,
                   progress, buttons,
                   references_view, widgets, outcome>>

GenerateTextViaLlm ==
    /\ pc = "generate_text_via_llm"
    /\ \E text \in GeneratedTexts :
          /\ Returned(text)
          /\ generated_text' = text
          /\ pc' = AfterGeneration(text)
          /\ IF AfterGeneration(text) = "done"
             THEN /\ Notice("generation_error")
                  /\ outcome' = "generation_failed"
                  /\ progress' = "cleared"
             ELSE UNCHANGED <<notices, outcome, progress>>
    /\ UNCHANGED <<permissions, session, redis, store, runs_left,
                   topic_input, search_field, user_topic, search_query, platform,
                   raw_texts, texts, similar_texts, prompt_context,
                   approval_sent, text_data, send_result, writes, buttons,
                   references_view, widgets>>

SendForApproval ==
    /\ pc = "send_for_approval"
    /\ \E sent \in BOOLEAN :
          /\ Returned(sent)
          /\ approval_sent' = sent
          /\ pc' = AfterApproval(sent)
    /\ text_data' = TextData(user_topic, platform, generated_text)
    /\ UNCHANGED <<permissions, session, redis, store, runs_left,
                   topic_input, search_field, user_topic, search_query, platform,
                   raw_texts, texts, similar_texts, prompt_context,
                   generated_text, send_result, notices, writes, progress,
                   buttons,
                   references_view, widgets, outcome>>

CreateText ==
    /\ pc = "create_text"
    /\ \E ok \in BOOLEAN :
          /\ IF ok
             THEN /\ Returned("created")
                  /\ store' = StoreCreate(text_data)
                  /\ send_result' = "created"
             ELSE /\ calls' = Append(calls, Raised(pc, CallArgs(pc)))
                  /\ store' = store
                  /\ send_result' = "Erro ao registrar na API"
          /\ pc' = AfterCreateText(ok)
    /\ progress' = "cleared"
    /\ Notice("generated_success")
    /\ UNCHANGED <<permissions, session, redis, runs_left, topic_input, search_field,
                   user_topic, search_query, platform, raw_texts, texts,
                   similar_texts, prompt_context, generated_text,
                   approval_sent, text_data, writes, buttons,
                   references_view, widgets, outcome>>

\* The result view, from extract_word_count to the write of 'last_generated'
\* Mutant of approve_generated_disabled: the approve button is always enabled
approve_generated_enabled(sent) == FALSE

\* disabled= of the buttons of the result view, keys "approve_generated" and
\* "reject_generated"
approve_generated_disabled(sent) == sent

reject_generated_disabled(sent) == ~sent

\* The result view, from extract_word_count to the write of 'last_generated'
RenderResult ==
    /\ pc = "extract_word_count"
    /\ Returned(300)
    /\ buttons' = [rendered |-> TRUE,
                   approve_disabled |->
                       approve_generated_disabled(approval_sent),
                   reject_disabled |->
                       reject_generated_disabled(approval_sent)]
    /\ references_view' = ReferencesView(similar_texts)
    /\ Notice(send_result)
    /\ session' = SessionSet("last_generated", LastGenerated)
    /\ writes' = Append(writes, "last_generated")
    /\ outcome' = "success"
    /\ pc' = "done"
    /\ UNCHANGED <<permissions, redis, store, runs_left, topic_input, search_field,
                   user_topic, search_query, platform, raw_texts, texts,
                   similar_texts, prompt_context, generated_text,
                   approval_sent, text_data, send_result, progress, widgets>>

\* The calls whose exception reaches the handler of the whole run
RaisingSteps == {Steps[i] : i \in 1..Len(Steps)} \ {"create_text"}

\* Mutant of RaiseInStep: no handler of the whole run, the exception leaves it
RaiseInStepUnhandled ==
    /\ pc \in RaisingSteps
    /\ calls' = Append(calls, Raised(pc, CallArgs(pc)))
    /\ outcome' = "propagated"
    /\ pc' = "done"
    /\ UNCHANGED <<permissions, session, redis, store, runs_left,
                   topic_input, search_field, user_topic, search_query, platform,
                   raw_texts, texts, similar_texts, prompt_context,
                   generated_text, approval_sent, text_data, send_result,
                   notices, writes, progress, buttons,
                   references_view, widgets>>

\* A collaborator call raises: except Exception, then finally
RaiseInStep ==
    /\ pc \in RaisingSteps
    /\ calls' = Append(calls, Raised(pc, CallArgs(pc)))
    /\ Notice("processing_error")
    /\ outcome' = "exception"
    /\ progress' = "cleared"
    /\ pc' = "done"
    /\ UNCHANGED <<permissions, session, redis, store, runs_left,
                   topic_input, search_field, user_topic, search_query, platform,
                   raw_texts, texts, similar_texts, prompt_context,
                   generated_text, approval_sent, text_data, send_result,
                   writes, buttons,
                   references_view, widgets>>

-----------------------------------------------------------------------------

Next ==
    \/ \E text_topic \in Topics : Generate(text_topic)
    \/ GetCachedEmbeddings
    \/ SearchTexts
    \/ TreatTextContent
    \/ FindSimilarTexts
    \/ CacheEmbeddings
    \/ CreatePromptContext
    \/ GenerateTextViaLlm
    \/ SendForApproval
    \/ CreateText
    \/ RenderResult
    \/ RaiseInStep

Spec == Init /\ [][Next]_vars

-----------------------------------------------------------------------------
(* Reading the logs of a script run *)

Range(seq) == {seq[i] : i \in DOMAIN seq}

\* The positions in `calls` of the calls of fn
CallsOf(fn) == {i \in DOMAIN calls : calls[i].fn = fn}

Called(fn) == CallsOf(fn) # {}

\* What the calls of fn that returned have returned
ReturnsOf(fn) == {calls[i].ret : i \in {j \in CallsOf(fn) : calls[j].ok}}

\* No call raised, but possibly calls of the functions in `allowed`
NoRaiseOutside(allowed) ==
    \A i \in DOMAIN calls : calls[i].ok \/ calls[i].fn \in allowed

\* The run ended in the handler of the whole run, after the last call raised
EndedByRaiseOf(fn) ==
    /\ pc = "done"
    /\ outcome = "exception"
    /\ calls # <<>>
    /\ calls[Len(calls)].fn = fn
    /\ ~calls[Len(calls)].ok

GenerationReturnedFalsy ==
    \E text \in ReturnsOf("generate_text_via_llm") : ~TextTruthy(text)

GenerationReturnedText ==
    \E text \in ReturnsOf("generate_text_via_llm") : TextTruthy(text)

CreateTextRaised == \E i \in CallsOf("create_text") : ~calls[i].ok

CacheHit ==
    /\ calls # <<>>
    /\ calls[1].fn = "get_cached_embeddings"
    /\ calls[1].ok
    /\ DictTruthy(calls[1].ret)

SearchReturnedEmpty ==
    \E raw \in ReturnsOf("search_texts") : ~ListTruthy(raw)

\* The run wrote 'last_generated' from its own generated text and dispatch
WroteLastGenerated ==
    /\ "last_generated" \in Range(writes)
    /\ SessionHas("last_generated")
    /\ session["last_generated"].text = generated_text
    /\ session["last_generated"].text \in ReturnsOf("generate_text_via_llm")
    /\ session["last_generated"].approved \in ReturnsOf("send_for_approval")
    /\ session["last_generated"].approved = approval_sent

-----------------------------------------------------------------------------
(* The claims *)

\* C1: when generate_text_via_llm returns an empty or falsy value the run
\* ends as a generation failure: create_text and send_for_approval are not
\* called in it and it does not write 'last_generated'.
C1_FalsyGenerationFailsRun ==
    GenerationReturnedFalsy =>
        /\ pc = "done"
        /\ outcome = "generation_failed"
        /\ "generation_error" \in Range(notices)
        /\ ~Called("create_text")
        /\ ~Called("send_for_approval")
        /\ "last_generated" \notin Range(writes)

C1_Witness ==
    /\ "" \in ReturnsOf("generate_text_via_llm")
    /\ pc = "done"
    /\ SessionHas("last_generated")
    /\ session["last_generated"] = EarlierGenerated

\* C2: when generation returned text and create_text then raises, the run
\* goes on to the result view and, unless the word count extraction raises,
\* ends as a success: 'last_generated' holds the generated text and its
\* 'approved' field is what send_for_approval returned.
C2_PersistenceFailureIsNotFatal ==
    CreateTextRaised =>
        /\ GenerationReturnedText
        /\ send_result = "Erro ao registrar na API"
        /\ \/ pc = "extract_word_count" /\ outcome = "running"
           \/ EndedByRaiseOf("extract_word_count")
           \/ /\ pc = "done"
              /\ outcome = "success"
              /\ WroteLastGenerated

C2_Witness ==
    /\ CreateTextRaised
    /\ outcome = "success"
    /\ store = <<>>
    /\ session["last_generated"].approved = TRUE

\* C3: a topic that is empty or whose trimmed length is below 5 or above 500
\* is reported invalid by validate_topic, and pressing "Gerar Post" with it
\* makes no collaborator call and starts no run.
InvalidTopic(topic) ==
    \/ StrLen(topic) = 0
    \/ StrLen(Strip(topic)) < 5
    \/ StrLen(Strip(topic)) > 500

C3_InvalidTopicCallsNothing ==
    /\ \A topic \in Topics : InvalidTopic(topic) => ~validate_topic(topic)[1]
    /\ InvalidTopic(topic_input) =>
          /\ calls = <<>>
          /\ writes = <<>>
          /\ pc = "idle"
          /\ outcome \in {"none", "validation_failed"}

C3_Witness ==
    /\ outcome = "validation_failed"
    /\ StrLen(topic_input) > 5
    /\ StrLen(Strip(topic_input)) < 5
    /\ StrLen(Strip(topic_input)) > 0

\* C4: on a cache hit the run takes the cached 'similar_texts' as its
\* references, calls none of search_texts, treat_text_content,
\* find_similar_texts_via_api and cache_embeddings, and its next call is
\* create_prompt_context with those references.
C4_CacheHitSkipsSearch ==
    CacheHit =>
        LET cached == DictGet(calls[1].ret, "similar_texts", <<>>)
        IN /\ similar_texts = cached
           /\ \A fn \in {"search_texts", "treat_text_content",
                         "find_similar_texts_via_api", "cache_embeddings"} :
                 ~Called(fn)
           /\ Len(calls) = 1 => pc = "create_prompt_context"
           /\ Len(calls) >= 2 =>
                 /\ calls[2].fn = "create_prompt_context"
                 /\ calls[2].args[2] = cached

C4_Witness ==
    /\ CacheHit
    /\ Len(similar_texts) > 0
    /\ outcome = "success"

\* C5: on a cache miss where search_texts returns nothing the run goes on
\* with an empty reference list: its next calls are create_prompt_context
\* and generate_text_via_llm, it fails only if generation returns nothing or
\* a call raises, and when generation succeeds it ends as a success with an
\* empty reference list.
C5_EmptySearchIsDegradedSuccess ==
    SearchReturnedEmpty =>
        /\ ~CacheHit
        /\ similar_texts = <<>>
        /\ \A fn \in {"treat_text_content", "find_similar_texts_via_api",
                      "cache_embeddings"} : ~Called(fn)
        /\ Len(calls) = 2 => pc = "create_prompt_context"
        /\ Len(calls) >= 3 =>
              /\ calls[3].fn = "create_prompt_context"
              /\ calls[3].args[2] = <<>>
              /\ calls[3].ok =>
                    \/ pc = "generate_text_via_llm"
                    \/ Called("generate_text_via_llm")
        /\ outcome = "generation_failed" => GenerationReturnedFalsy
        /\ outcome = "exception" => ~NoRaiseOutside({})
        /\ (pc = "done" /\ GenerationReturnedText
            /\ NoRaiseOutside({"create_text"})) =>
              /\ outcome = "success"
              /\ WroteLastGenerated
              /\ prompt_context.references = <<>>

C5_Witness ==
    /\ SearchReturnedEmpty
    /\ outcome = "success"
    /\ "no_api_refs" \in Range(notices)

\* C6: when search_texts returns raw texts and treat_text_content returns
\* nothing usable, find_similar_texts_via_api (and cache_embeddings) is not
\* called, the reference list is empty, and the next calls are
\* create_prompt_context with no references and generate_text_via_llm, as on
\* the empty-search path.
TreatReturnedEmpty ==
    /\ \E raw \in ReturnsOf("search_texts") : ListTruthy(raw)
    /\ \E treated \in ReturnsOf("treat_text_content") : ~ListTruthy(treated)

C6_EmptyTreatmentIsDegradedSuccess ==
    TreatReturnedEmpty =>
        /\ similar_texts = <<>>
        /\ \A fn \in {"find_similar_texts_via_api", "cache_embeddings"} :
              ~Called(fn)
        /\ Len(calls) = 3 => pc = "create_prompt_context"
        /\ Len(calls) >= 4 =>
              /\ calls[4].fn = "create_prompt_context"
              /\ calls[4].args = <<user_topic, <<>>, platform, DefaultTone,
                                   DefaultCreativity, DefaultLength>>
              /\ calls[4].ok =>
                    \/ pc = "generate_text_via_llm"
                    \/ Called("generate_text_via_llm")
        /\ outcome = "generation_failed" => GenerationReturnedFalsy
        /\ outcome = "exception" => ~NoRaiseOutside({})
        /\ (pc = "done" /\ GenerationReturnedText
            /\ NoRaiseOutside({"create_text"})) =>
              /\ outcome = "success"
              /\ WroteLastGenerated
              /\ prompt_context.references = <<>>

C6_Witness ==
    /\ TreatReturnedEmpty
    /\ outcome = "success"
    /\ "invalid_after_treatment" \in Range(notices)

\* C7: cache_embeddings is called in a run exactly when the run had a cache
\* miss and find_similar_texts_via_api returned a non-empty ranking: it is
\* then the next call, made once, with the query of the cache lookup as key
\* and that ranking as value; it is not called on a cache hit nor with an
\* empty ranking.
C7_CacheWrittenOnNonEmptyRanking ==
    /\ \A i \in CallsOf("cache_embeddings") :
          /\ i > 1
          /\ calls[i - 1].fn = "find_similar_texts_via_api"
          /\ calls[i - 1].ok
          /\ ListTruthy(calls[i - 1].ret)
          /\ calls[i].args = <<search_query, SimilarDict(calls[i - 1].ret)>>
          /\ calls[1].fn = "get_cached_embeddings"
          /\ calls[1].args = <<calls[i].args[1]>>
          /\ ~CacheHit
    /\ Cardinality(CallsOf("cache_embeddings")) <= 1
    /\ \A i \in CallsOf("find_similar_texts_via_api") :
          (calls[i].ok /\ ListTruthy(calls[i].ret)) =>
              \/ i = Len(calls) /\ pc = "cache_embeddings"
              \/ i < Len(calls) /\ calls[i + 1].fn = "cache_embeddings"
    /\ pc = "cache_embeddings" =>
          /\ calls[Len(calls)].fn = "find_similar_texts_via_api"
          /\ ListTruthy(similar_texts)

C7_Witness ==
    /\ \E i \in CallsOf("cache_embeddings") : calls[i].ok
    /\ ListTruthy(similar_texts)
    /\ redis[search_query] = SimilarDict(similar_texts)
    /\ outcome = "success"

\* C8: whatever send_for_approval returns, the next call is create_text with
\* the generated text and the run ends as a success (unless the word count
\* extraction raises); the returned value sets only the disabled state of
\* the approve and reject buttons and the 'approved' field.
ApprovalReturned(sent) ==
    \E i \in CallsOf("send_for_approval") : calls[i].ok /\ calls[i].ret = sent

C8_DispatchFailureIsNotFatal ==
    \A sent \in BOOLEAN :
        ApprovalReturned(sent) =>
            /\ approval_sent = sent
            /\ \/ pc = "create_text"
               \/ \E i \in CallsOf("create_text") :
                     /\ calls[i - 1].fn = "send_for_approval"
                     /\ calls[i].args[2].content = generated_text
                     /\ calls[i].args[2].content
                            \in ReturnsOf("generate_text_via_llm")
            /\ \/ pc \in {"create_text", "extract_word_count"}
                  /\ outcome = "running"
               \/ EndedByRaiseOf("extract_word_count")
               \/ /\ pc = "done"
                  /\ outcome = "success"
                  /\ WroteLastGenerated
                  /\ session["last_generated"].approved = sent
                  /\ buttons = [rendered |-> TRUE,
                                approve_disabled |-> sent,
                                reject_disabled |-> ~sent]

C8_Witness ==
    /\ ApprovalReturned(FALSE)
    /\ outcome = "success"
    /\ Len(store) = 1
    /\ store[1].content = generated_text

\* C9: every record handed to create_text has is_approved = FALSE (also when
\* send_for_approval returned TRUE), the trimmed user topic as theme, the
\* generated text as content and the selected platform code as platform,
\* "GENERIC" when no platform is set; the stored record is that record.
C9_CreatedRecordShape ==
    \A i \in CallsOf("create_text") :
        LET record == calls[i].args[2]
        IN /\ record.is_approved = FALSE
           /\ record.theme = user_topic
           /\ record.theme = Strip(topic_input)
           /\ record.content \in ReturnsOf("generate_text_via_llm")
           /\ TextTruthy(record.content)
           /\ record.platform \in PlatformOptions
           /\ record.platform = GENERIC <=> platform = ""
           /\ record.platform # GENERIC => record.platform = platform
           /\ calls[i].ok =>
                 /\ store # <<>>
                 /\ store[Len(store)].theme = record.theme
                 /\ store[Len(store)].platform = record.platform
                 /\ store[Len(store)].content = record.content
                 /\ store[Len(store)].is_approved = FALSE

C9_Witness ==
    /\ \E i \in CallsOf("create_text") : calls[i].ok
    /\ ApprovalReturned(TRUE)
    /\ platform = ""
    /\ store[1].platform = GENERIC
    /\ StrLen(topic_input) > StrLen(store[1].theme)

\* C10: the collaborator calls of a run are made in the order cache lookup,
\* search, normalization, ranking, cache write, prompt assembly, generation,
\* approval dispatch, persistence; a call is made only after every earlier
\* call of the run has ended, and dispatch and persistence only after
\* generation returned a non-empty text.
StepRank(fn) == CHOOSE i \in 1..Len(Steps) : Steps[i] = fn

C10_StepsInOrder ==
    /\ \A i, j \in DOMAIN calls :
          i < j => StepRank(calls[i].fn) < StepRank(calls[j].fn)
    /\ \A i \in DOMAIN calls :
          i < Len(calls) => calls[i].ok \/ calls[i].fn = "create_text"
    /\ pc \in Range(Steps) =>
          /\ \A i \in DOMAIN calls : StepRank(calls[i].fn) < StepRank(pc)
          /\ \A i \in DOMAIN calls : calls[i].ok \/ calls[i].fn = "create_text"
    /\ \A i \in CallsOf("send_for_approval") \cup CallsOf("create_text") :
          \E j \in CallsOf("generate_text_via_llm") :
              j < i /\ calls[j].ok /\ TextTruthy(calls[j].ret)
    /\ pc \in {"send_for_approval", "create_text"} => GenerationReturnedText

C10_Witness ==
    /\ Len(calls) = Len(Steps)
    /\ outcome = "success"
    /\ \A i \in DOMAIN calls : calls[i].fn = Steps[i]

-----------------------------------------------------------------------------
(* Two pipeline runs of one session, started with the same topic *)

\* No script run has started yet
IdleScript ==
    /\ pc = "idle"
    /\ topic_input = EmptyStr
    /\ search_field = EmptyStr
    /\ user_topic = EmptyStr
    /\ search_query = EmptyStr
    /\ platform = ""
    /\ raw_texts = <<>>
    /\ texts = <<>>
    /\ similar_texts = <<>>
    /\ prompt_context = NoneDict
    /\ generated_text = None
    /\ approval_sent = FALSE
    /\ text_data = NoTextData
    /\ send_result = None
    /\ calls = <<>>
    /\ notices = <<>>
    /\ writes = <<>>
    /\ progress = "none"
    /\ buttons = NoButtons
    /\ references_view = NoView
    /\ widgets = NoWidgets
    /\ outcome = "none"

\* The topic the user keeps in the topic field
SameTopic == Str(0, MinTopicLen, 0, 1)

InitRoundTrip ==
    /\ permissions = {"read", "create", "update"}
    /\ session = LoggedIn
    /\ redis = [q \in Queries |-> NoneDict]
    /\ store = <<>>
    /\ runs_left = MaxRuns + 1
    /\ IdleScript

NextRoundTrip ==
    \/ Generate(SameTopic)
    \/ GetCachedEmbeddings
    \/ SearchTexts
    \/ TreatTextContent
    \/ FindSimilarTexts
    \/ CacheEmbeddings
    \/ CreatePromptContext
    \/ GenerateTextViaLlm
    \/ SendForApproval
    \/ CreateText
    \/ RenderResult
    \/ RaiseInStep

SpecRoundTrip == InitRoundTrip /\ [][NextRoundTrip]_vars

-----------------------------------------------------------------------------
(* The slices of the references that are shown *)

\* The slice of the preview after ranking, and of the result view
PreviewSlice == Top(similar_texts, 3)
DisplaySlice == Top(similar_texts, 5)

\* C11: every reference sequence the preview and display slices are taken
\* from, freshly ranked or read from the cache, is sorted by score
\* descending, and references of equal score are in discovery order.
CorpusIndex(text) == CHOOSE i \in DOMAIN Corpus : Corpus[i] = text

SortedByScore(refs) ==
    \A i, j \in DOMAIN refs : i < j => refs[i][2] >= refs[j][2]

StableByDiscovery(refs) ==
    \A i, j \in DOMAIN refs :
        (i < j /\ refs[i][2] = refs[j][2]) =>
            CorpusIndex(refs[i][1]) < CorpusIndex(refs[j][1])

SomeCallRaised == \E i \in DOMAIN calls : ~calls[i].ok

C12_AnyRaiseIsProcessingError ==
    (pc = "done" /\ SomeCallRaised) =>
        /\ outcome = "exception"
        /\ "processing_error" \in Range(notices)

\* C12 (amended): a run that has started ends as success, generation failure
\* or caught exception, never by an exception leaving it; an exception of any
\* call but create_text ends the run with the processing error notice, an
\* exception of create_text is caught at the call and the run goes on; at
\* every end of a run the progress bar and status text are cleared.
RunEnded == pc = "done"

C12_RunEndsHandledAndCleared ==
    /\ pc \in Range(Steps) => outcome = "running" /\ ENABLED Next
    /\ RunEnded =>
          /\ outcome \in {"success", "generation_failed", "exception"}
          /\ progress = "cleared"
          /\ outcome = "exception" <=>
                \E fn \in RaisingSteps : EndedByRaiseOf(fn)
          /\ outcome = "exception" =>
                notices[Len(notices)] = "processing_error"
          /\ outcome # "exception" =>
                /\ NoRaiseOutside({"create_text"})
                /\ "processing_error" \notin Range(notices)
    /\ \A i \in DOMAIN calls :
          (~calls[i].ok /\ calls[i].fn # "create_text") =>
              /\ i = Len(calls)
              /\ RunEnded /\ outcome = "exception"

C12_Witness ==
    /\ EndedByRaiseOf("extract_word_count")
    /\ CreateTextRaised
    /\ progress = "cleared"
    /\ notices[Len(notices)] = "processing_error"

-----------------------------------------------------------------------------
(* The settings page (src/pages/settings.py) next to the create page *)

\* The words of a session key, which are joined by "_" in its name
Words(key) ==
    CASE key = "cached_texts" -> <<"cached", "texts">>
      [] key = "cached_posts" -> <<"cached", "posts">>
      [] key = "texts_cached" -> <<"texts", "cached">>
      [] key = "last_generated" -> <<"last", "generated">>
      [] key = "regenerate_text_data" -> <<"regenerate", "text", "data">>
      [] key = "user_token" -> <<"user", "token">>
      [] key = "auto_refresh" -> <<"auto", "refresh">>
      [] key = "items_per_page" -> <<"items", "per", "page">>
      [] key = "show_success_notifications" ->
            <<"show", "success", "notifications">>
      [] key = "show_error_notifications" ->
            <<"show", "error", "notifications">>
      [] key = "debug_mode" -> <<"debug", "mode">>
      [] key = "api_timeout" -> <<"api", "timeout">>
      [] OTHER -> <<key>>

\* k.startswith(word + "_")
StartsWith(key, word) == Len(Words(key)) > 1 /\ Words(key)[1] = word

\* Mutant of KeysToRemove: every key but those of the login is removed
KeysToRemoveAllButLogin(keys) ==
    keys \ {"authenticated", "user_token", "username"}

\* Mutant of KeysToRemove: every key that has the word is removed
KeysToRemoveContaining(keys) ==
    {k \in keys : \E i \in DOMAIN Words(k) : Words(k)[i] = "cached"}

\* The keys "Limpar Cache" removes
KeysToRemove(keys) == {k \in keys : StartsWith(k, "cached")}

\* The keys "Reiniciar Sessao" keeps
\* Mutant of KeysToKeep: the reset spares a preference
KeysToKeepWithPreference ==
    {"authenticated", "user_token", "username", "auto_refresh"}

KeysToKeep == {"authenticated", "user_token", "username"}

\* The preferences and the defaults of their widgets
UserPreferences ==
    [k \in {"auto_refresh", "items_per_page", "show_success_notifications",
            "show_error_notifications"} |->
        IF k = "items_per_page" THEN 12 ELSE TRUE]

AdvancedSettings ==
    [k \in {"debug_mode", "api_timeout"} |->
        IF k = "api_timeout" THEN 10 ELSE FALSE]

\* Rendering a group of preferences writes the value of each widget, which
\* is the stored value, or the default when nothing is stored
WithPreferences(state, defaults) ==
    [k \in DOMAIN state \cup DOMAIN defaults |->
        IF k \in DOMAIN state THEN state[k] ELSE defaults[k]]

Without(state, keys) == [k \in DOMAIN state \ keys |-> state[k]]

\* A script run of another page: the locals of the pipeline are gone
PageScript(page, toasts) ==
    /\ pc' = page
    /\ notices' = toasts
    /\ FreshLocals
    /\ topic_input' = EmptyStr
    /\ search_field' = EmptyStr
    /\ user_topic' = EmptyStr
    /\ search_query' = EmptyStr
    /\ platform' = ""
    /\ progress' = "none"
    /\ outcome' = "none"

\* The script is not in a pipeline run and owes no rerun
AtRest == pc \in {"idle", "done", "settings", "library"}

\* Settings.render_page without a button pressed; also the run of st.rerun()
RenderSettings ==
    /\ AtRest \/ pc = "settings_rerun"
    /\ session' = WithPreferences(WithPreferences(session, UserPreferences),
                                  AdvancedSettings)
    /\ PageScript("settings", <<>>)
    /\ UNCHANGED <<permissions, redis, store, runs_left>>

\* "Limpar Cache" pressed: the preferences above the button are rendered,
\* the keys are deleted and the script is run again
ClearCache ==
    /\ pc = "settings"
    /\ LET rendered == WithPreferences(session, UserPreferences)
       IN session' = Without(rendered, KeysToRemove(DOMAIN rendered))
    /\ PageScript("settings_rerun", <<"cache_cleared">>)
    /\ UNCHANGED <<permissions, redis, store, runs_left>>

\* "Reiniciar Sessao" pressed: the page is rendered down to the button, the
\* keys are deleted and the script is run again
ResetSession ==
    /\ pc = "settings"
    /\ LET rendered ==
              WithPreferences(WithPreferences(session, UserPreferences),
                              AdvancedSettings)
       IN session' = Without(rendered, DOMAIN rendered \ KeysToKeep)
    /\ PageScript("settings_rerun", <<"session_reset">>)
    /\ UNCHANGED <<permissions, redis, store, runs_left>>

\* regenerate_data and default_theme of Texts.create, read from the session
regenerate_data(state) ==
    IF "regenerate_text_data" \in DOMAIN state
    THEN Dict(state["regenerate_text_data"]) ELSE Dict(<<>>)

default_theme(state) == DictGet(regenerate_data(state), "theme", EmptyStr)

\* Mutant of create: rendering the page uses up the staged data
create_consuming ==
    /\ IF "create" \in permissions
       THEN PageScript("idle",
                       IF SessionHas("last_generated")
                       THEN <<"previous_loaded">> ELSE <<>>)
       ELSE PageScript("restricted", <<>>)
    /\ session' = Without(session, {"regenerate_text_data"})
    /\ UNCHANGED <<permissions, redis, store, runs_left>>

\* Texts.create without "Gerar Post" pressed: the page, or the notice of
\* restricted access
create ==
    /\ IF "create" \in permissions
       THEN PageScript("idle",
                       IF SessionHas("last_generated")
                       THEN <<"previous_loaded">> ELSE <<>>)
       ELSE PageScript("restricted", <<>>)
    /\ UNCHANGED <<permissions, session, redis, store, runs_left>>

\* Texts.create opened from another page
OpenCreate ==
    /\ pc \in {"settings", "library"}
    /\ "create" \in permissions
    /\ create

\* The session keys other code of the application can have set
ForeignKeys == {"cached_texts", "cached_posts", "texts_cached"}

InitSession ==
    /\ permissions = {"read", "create", "update"}
    /\ \E last \in SUBSET {"last_generated"} :
          session = [k \in DOMAIN LoggedIn \cup last \cup ForeignKeys |->
                        IF k \in DOMAIN LoggedIn THEN LoggedIn[k]
                        ELSE IF k \in last THEN EarlierGenerated
                        ELSE <<"value of", k>>]
    /\ redis \in {r \in [Queries -> {NoneDict} \cup PreloadedValues] :
                    \A q \in Queries : r[q] # NoneDict => q = SameTopic}
    /\ store = <<>>
    /\ runs_left = MaxRuns
    /\ IdleScript

NextSession ==
    \/ Generate(SameTopic)
    \/ GetCachedEmbeddings
    \/ SearchTexts
    \/ TreatTextContent
    \/ FindSimilarTexts
    \/ CacheEmbeddings
    \/ CreatePromptContext
    \/ GenerateTextViaLlm
    \/ SendForApproval
    \/ CreateText
    \/ RenderResult
    \/ RaiseInStep
    \/ RenderSettings
    \/ ClearCache
    \/ ResetSession
    \/ OpenCreate

SpecSession == InitSession /\ [][NextSession]_vars

\* C13: the 'last_generated' entry of the session changes or disappears only
\* when a successful run overwrites it with its own generated text or when
\* the session is reset; no other step, and no run that fails (validation,
\* generation failure, caught exception), changes it.
LastGeneratedEntry(state) ==
    IF "last_generated" \in DOMAIN state THEN state["last_generated"]
                                         ELSE [text |-> None]

OverwrittenBySuccessfulRun ==
    /\ pc = "extract_word_count"
    /\ outcome' = "success"
    /\ "last_generated" \in DOMAIN session'
    /\ session'["last_generated"].text = generated_text
    /\ TextTruthy(generated_text)

ClearedBySessionReset ==
    /\ pc = "settings"
    /\ notices' = <<"session_reset">>
    /\ "last_generated" \notin DOMAIN session'

C13_LastGeneratedStable ==
    [][/\ LastGeneratedEntry(session') # LastGeneratedEntry(session) =>
             OverwrittenBySuccessfulRun \/ ClearedBySessionReset
       /\ outcome' \in {"validation_failed", "generation_failed", "exception"}
             => LastGeneratedEntry(session') = LastGeneratedEntry(session)
      ]_vars

C13_Witness ==
    /\ pc = "idle"
    /\ runs_left = 0
    /\ "auto_refresh" \in DOMAIN session
    /\ "cached_texts" \notin DOMAIN session
    /\ LastGeneratedEntry(session).text = "post A"

\* C18: "Limpar Cache" removes from the session exactly the keys that start
\* with "cached_", leaves every other key with its value, and leaves the
\* external cache alone: a query cached there is still a cache hit in the
\* pipeline run that follows.
ClearCacheStep == pc = "settings" /\ notices' = <<"cache_cleared">>

C18_ClearCacheIsSessionOnly ==
    /\ [][ClearCacheStep =>
             /\ session' = Without(session, {"cached_texts", "cached_posts"})
             /\ redis' = redis
             /\ store' = store]_vars
    /\ [][\A q \in Queries :
             DictTruthy(redis[q]) => redis'[q] = redis[q]]_vars
    /\ [][(pc = "get_cached_embeddings" /\ DictTruthy(redis[search_query])
           /\ outcome' # "exception") =>
             /\ pc' = "create_prompt_context"
             /\ calls' = <<Call("get_cached_embeddings", <<search_query>>,
                                redis[search_query])>>]_vars

C18_Witness ==
    /\ CacheHit
    /\ ~Called("search_texts")
    /\ outcome = "success"
    /\ DOMAIN session \cap ForeignKeys = {"texts_cached"}

-----------------------------------------------------------------------------
(* The post library (Texts.render) *)

MaxStored == 2     \* records in the content store when the session starts

\* The record with this id that an earlier session created
StoredRecord(id, is_approved) ==
    [id |-> id, theme |-> Str(0, MinTopicLen, 0, id), platform |-> GENERIC,
     content |-> "post 0", is_approved |-> is_approved]

\* TextsRequest.approve_text and reject_text on the store
StoreSetApproved(id, is_approved) ==
    [i \in DOMAIN store |->
        IF store[i].id = id
        THEN [store[i] EXCEPT !.is_approved = is_approved] ELSE store[i]]

\* Mutant of approve_disabled: an approved record can be approved again
approve_disabled_by_permission(text) == "update" \notin permissions

\* The disabled flags of the three buttons of a card
approve_disabled(text) == text.is_approved \/ "update" \notin permissions

\* Mutant of reject_disabled: the reject button is never enabled
reject_disabled_always(text) == TRUE

\* Mutant of reject_disabled: a pending record can be rejected
reject_disabled_by_permission(text) == "update" \notin permissions

reject_disabled(text) == ~text.is_approved \/ "update" \notin permissions

regenerate_disabled == "create" \notin permissions

\* What the card of a record shows
Card(text) ==
    [status_text |-> IF text.is_approved THEN "Aprovado" ELSE "Pendente",
     status_emoji |-> IF text.is_approved THEN "approved" ELSE "pending",
     theme_display |-> text.theme,
     content_text |-> text.content,
     platform |-> text.platform,
     approve_label |-> IF ~text.is_approved THEN "Aprovar" ELSE "Aprovado",
     reject_label |-> IF text.is_approved THEN "Reprovar" ELSE "Reprovado",
     approve_disabled |-> approve_disabled(text),
     reject_disabled |-> reject_disabled(text),
     regenerate_disabled |-> regenerate_disabled]

\* Mutant of RegenerateTextData: the theme of the record is not staged
RegenerateTextDataWithoutTheme(text) ==
    [theme |-> EmptyStr, original_id |-> text.id]

\* What the regenerate button of a card stages
RegenerateTextData(text) == [theme |-> text.theme, original_id |-> text.id]

\* A script run of render or update: its calls, toasts and widgets; no
\* pipeline locals
TextsScript(page, log, toasts, shown) ==
    /\ pc' = page
    /\ calls' = log
    /\ notices' = toasts
    /\ raw_texts' = <<>>
    /\ texts' = <<>>
    /\ similar_texts' = <<>>
    /\ prompt_context' = NoneDict
    /\ generated_text' = None
    /\ approval_sent' = FALSE
    /\ text_data' = NoTextData
    /\ send_result' = None
    /\ writes' = <<>>
    /\ buttons' = NoButtons
    /\ references_view' = NoView
    /\ widgets' = shown
    /\ topic_input' = EmptyStr
    /\ search_field' = EmptyStr
    /\ user_topic' = EmptyStr
    /\ search_query' = EmptyStr
    /\ platform' = ""
    /\ progress' = "none"
    /\ outcome' = "none"

\* A script run of the library
LibraryScript(page, log, toasts) == TextsScript(page, log, toasts, NoWidgets)

GetTexts == Call("get_texts", <<Token>>, store)

\* Texts.render without a button pressed
render ==
    /\ IF "read" \in permissions
       THEN LibraryScript("library", <<GetTexts>>, <<>>)
       ELSE LibraryScript("library", <<>>, <<>>)
    /\ UNCHANGED <<permissions, session, redis, store, runs_left>>

\* Texts.render opened from another page; also the run of st.rerun()
OpenLibrary ==
    /\ AtRest \/ pc = "library_rerun"
    /\ render

\* The cards the library shows
Shown == IF "read" \in permissions THEN DOMAIN store ELSE {}

\* The approve button of card i pressed
Approve(i) ==
    /\ pc = "library"
    /\ i \in Shown
    /\ ~approve_disabled(store[i])
    /\ store' = StoreSetApproved(store[i].id, TRUE)
    /\ LibraryScript("library_rerun",
                     <<GetTexts,
                       Call("approve_text", <<Token, store[i].id>>,
                            "approved")>>,
                     <<"approved">>)
    /\ UNCHANGED <<permissions, session, redis, runs_left>>

\* The reject button of card i pressed
Reject(i) ==
    /\ pc = "library"
    /\ i \in Shown
    /\ ~reject_disabled(store[i])
    /\ store' = StoreSetApproved(store[i].id, FALSE)
    /\ LibraryScript("library_rerun",
                     <<GetTexts,
                       Call("reject_text", <<Token, store[i].id>>,
                            "rejected")>>,
                     <<"rejected">>)
    /\ UNCHANGED <<permissions, session, redis, runs_left>>

\* The regenerate button of card i pressed
RegenerateFromLibrary(i) ==
    /\ pc = "library"
    /\ i \in Shown
    /\ ~regenerate_disabled
    /\ session' = SessionSet("regenerate_text_data",
                             RegenerateTextData(store[i]))
    /\ LibraryScript("library", <<GetTexts>>, <<"data_saved">>)
    /\ UNCHANGED <<permissions, redis, store, runs_left>>

InitLibrary ==
    /\ permissions \in PermissionSets
    /\ session \in {LoggedIn, LoggedIn @@ ("last_generated" :> EarlierGenerated)}
    /\ redis = [q \in Queries |-> NoneDict]
    /\ \E n \in 0..MaxStored :
          \E flags \in [1..n -> BOOLEAN] :
              store = [i \in 1..n |-> StoredRecord(i, flags[i])]
    /\ runs_left = MaxRuns
    /\ IdleScript

NextLibrary ==
    \/ OpenLibrary
    \/ \E i \in DOMAIN store : Approve(i)
    \/ \E i \in DOMAIN store : Reject(i)
    \/ \E i \in DOMAIN store : RegenerateFromLibrary(i)
    \/ OpenCreate

SpecLibrary == InitLibrary /\ [][NextLibrary]_vars

\* C14: approve_text is called for a record only when 'update' is held and
\* the record is not approved; the call leaves the record approved and the
\* other records as they were, and the approve button of an approved record
\* is disabled, so it cannot be approved again.
NewCallsOf(fn) ==
    IF calls' = calls THEN {}
    ELSE {j \in DOMAIN calls' : calls'[j].fn = fn}

RecordOf(id) == CHOOSE i \in DOMAIN store : store[i].id = id

C14_ApproveOnlyPendingWithUpdate ==
    /\ [][\A j \in NewCallsOf("approve_text") :
             LET id == calls'[j].args[2]
             IN /\ "update" \in permissions
                /\ \E i \in DOMAIN store : store[i].id = id
                /\ ~store[RecordOf(id)].is_approved
                /\ store' = [store EXCEPT ![RecordOf(id)].is_approved = TRUE]
                /\ Card(store'[RecordOf(id)]).approve_disabled]_vars
    /\ [](\A i \in DOMAIN store :
             store[i].is_approved =>
                 /\ Card(store[i]).approve_disabled
                 /\ ~ENABLED Approve(i))

C14_Witness ==
    /\ pc = "library_rerun"
    /\ Called("approve_text")
    /\ Len(store) = 2
    /\ store[2].is_approved
    /\ calls[2].args = <<Token, store[2].id>>
    /\ ~store[1].is_approved

\* C15: reject_text is called for a record only when 'update' is held and
\* the record is approved; the call leaves the record not approved, and its
\* card is then the card of a record that was never approved.
C15_RejectOnlyApprovedWithUpdate ==
    /\ [][\A j \in NewCallsOf("reject_text") :
             LET id == calls'[j].args[2]
             IN /\ "update" \in permissions
                /\ \E i \in DOMAIN store : store[i].id = id
                /\ store[RecordOf(id)].is_approved
                /\ store' = [store EXCEPT ![RecordOf(id)].is_approved = FALSE]
                /\ Card(store'[RecordOf(id)]) = Card(StoredRecord(id, FALSE))
                /\ Card(store'[RecordOf(id)]).status_text = "Pendente"]_vars
    /\ [](\A i \in DOMAIN store :
             ~store[i].is_approved =>
                 /\ Card(store[i]).reject_disabled
                 /\ ~ENABLED Reject(i))

C15_Witness ==
    /\ pc = "library_rerun"
    /\ Called("reject_text")
    /\ Len(store) = 2
    /\ calls[2].args = <<Token, store[1].id>>
    /\ store[1] = StoredRecord(1, FALSE)
    /\ store[2].is_approved

\* C16 as stated: a regenerate action leaves the persisted record as it is
\* (no update_text, approve_text, reject_text or create_text call), stages
\* 'regenerate_text_data' with the theme of the record, and leaves the
\* session without 'last_generated'.
RegenerateDone == pc = "library" /\ notices = <<"data_saved">>

C16_RegenerateStagesAndClears ==
    RegenerateDone =>
        /\ \A j \in DOMAIN calls :
              calls[j].fn \notin {"update_text", "approve_text",
                                  "reject_text", "create_text"}
        /\ SessionHas("regenerate_text_data")
        /\ \E i \in DOMAIN store :
              session["regenerate_text_data"].theme = store[i].theme
        /\ ~SessionHas("last_generated")

\* C17: with 'update' held, of the approve and the reject button of a record
\* exactly one is enabled, approve when the record is not approved and
\* reject when it is, in every state; the enabled one can be pressed
\* whenever the library is shown, so no state of a record is final.
C17_NoTerminalApprovalState ==
    "update" \in permissions =>
        \A i \in DOMAIN store :
            /\ Card(store[i]).approve_disabled # Card(store[i]).reject_disabled
            /\ Card(store[i]).approve_disabled = store[i].is_approved
            /\ (pc = "library" /\ "read" \in permissions) =>
                  /\ ~store[i].is_approved => ENABLED Approve(i)
                  /\ store[i].is_approved => ENABLED Reject(i)
            /\ pc = "library_rerun" => ENABLED OpenLibrary

C17_Witness ==
    /\ pc = "library"
    /\ "update" \in permissions
    /\ Len(store) = 2
    /\ store[1].is_approved
    /\ ~store[2].is_approved
    /\ SessionHas("regenerate_text_data")

\* C19: after a run wrote a non-empty ranking R under its search_query, a
\* lookup with that key returns R: the next run with the same search_query
\* has a cache hit, uses exactly R as its references and does not call
\* search_texts.
C19_CacheRoundTrip ==
    /\ [](\A i \in CallsOf("cache_embeddings") :
             calls[i].ok =>
                 /\ ListTruthy(calls[i].args[2].items["similar_texts"])
                 /\ RedisGet(calls[i].args[1]) = calls[i].args[2])
    /\ [][\A q \in Queries :
             DictTruthy(RedisGet(q)) => redis'[q] = redis[q]]_vars
    /\ [][(pc = "get_cached_embeddings" /\ DictTruthy(RedisGet(search_query))
           /\ outcome' # "exception") =>
             /\ calls'[1].ret = RedisGet(search_query)
             /\ similar_texts' = RedisGet(search_query).items["similar_texts"]
             /\ pc' = "create_prompt_context"]_vars
    /\ [](CacheHit =>
             /\ ~Called("search_texts")
             /\ ~Called("cache_embeddings")
             /\ ListTruthy(similar_texts)
             /\ SimilarDict(similar_texts) = RedisGet(search_query)
             /\ \A i \in CallsOf("create_prompt_context") :
                   calls[i].args[2] = calls[1].ret.items["similar_texts"])

C19_Witness ==
    /\ runs_left = 0
    /\ CacheHit
    /\ Called("generate_text_via_llm")
    /\ Len(similar_texts) = 2
    /\ prompt_context # NoneDict
    /\ prompt_context.references = RedisGet(search_query).items["similar_texts"]

\* C20 as stated: whenever a run reaches prompt assembly with an empty
\* reference list, whatever produced the emptiness, a notice about the
\* missing references was shown earlier in the run, and the generation call
\* follows.
ReferenceNotices ==
    {"no_api_refs", "invalid_after_treatment", "no_similar_refs"}

AtPromptAssembly ==
    pc = "create_prompt_context" \/ Called("create_prompt_context")

C20_EmptyReferencesAreAnnounced ==
    (AtPromptAssembly /\ similar_texts = <<>>) =>
        /\ Range(notices) \cap ReferenceNotices # {}
        /\ \A i \in CallsOf("create_prompt_context") :
              calls[i].ok =>
                  \/ pc = "generate_text_via_llm"
                  \/ Called("generate_text_via_llm")

-----------------------------------------------------------------------------
(* The ranking call *)

\* The call right before call i returned `value`
PrecededByReturnOf(i, fn, value) ==
    /\ i > 1
    /\ calls[i - 1].fn = fn
    /\ calls[i - 1].ok
    /\ calls[i - 1].ret = value

\* What the run keeps as its references after the ranking call i returned
KeptRanking(i) ==
    /\ similar_texts = calls[i].ret
    /\ \A j \in CallsOf("cache_embeddings") :
          calls[j].args[2] = SimilarDict(calls[i].ret)
    /\ \A j \in CallsOf("create_prompt_context") :
          calls[j].args[2] = calls[i].ret

\* C21: a run calls find_similar_texts_via_api at most once, with the user
\* topic and the complete list treat_text_content returned, and the list it
\* returns is what the run caches, hands to the prompt and keeps, unchanged.
C21_RankingIsOneBatchCall ==
    /\ Cardinality(CallsOf("find_similar_texts_via_api")) <= 1
    /\ \A i \in CallsOf("find_similar_texts_via_api") :
          /\ calls[i].args[1] = user_topic
          /\ PrecededByReturnOf(i, "treat_text_content", calls[i].args[2])
          /\ calls[i].ok => KeptRanking(i)

C21_Witness ==
    /\ pc = "done"
    /\ outcome = "success"
    /\ \E i \in CallsOf("find_similar_texts_via_api") :
          /\ Len(calls[i].args[2]) = MaxRaw
          /\ calls[i].ok
          /\ Len(calls[i].ret) = MaxRaw
    /\ Called("cache_embeddings")

-----------------------------------------------------------------------------
(* Runs on a filled cache: the references of the result view *)

MaxCached == 6     \* references in a cached ranking

\* The scores around the relevance thresholds
RelevanceScores == {MediumScore - 1, MediumScore, HighScore - 1, HighScore}

CachedCorpus == [i \in 1..(MaxCached + 1) |->
                    CASE i = 1 -> "raw1" [] i = 2 -> "raw2" [] i = 3 -> "raw3"
                      [] i = 4 -> "raw4" [] i = 5 -> "raw5" [] i = 6 -> "raw6"
                      [] OTHER -> "raw7"]

\* The rankings an earlier run can have cached: descending by score
CachedRankings ==
    UNION {{[i \in 1..n |-> <<CachedCorpus[i], scoring[i]>>] :
              scoring \in {f \in [1..n -> RelevanceScores] :
                             \A i \in 1..(n - 1) : f[i] >= f[i + 1]}} :
           n \in 0..MaxCached}

InitRelevance ==
    /\ permissions = {"read", "create", "update"}
    /\ session = LoggedIn
    /\ \E ranking \in CachedRankings :
          redis = [q \in Queries |-> SimilarDict(ranking)]
    /\ store = <<>>
    /\ runs_left = MaxRuns
    /\ IdleScript

NextRelevance ==
    \/ Generate(SameTopic)
    \/ GetCachedEmbeddings
    \/ CreatePromptContext
    \/ GenerateTextViaLlm
    \/ SendForApproval
    \/ CreateText
    \/ RenderResult
    \/ RaiseInStep

SpecRelevance == InitRelevance /\ [][NextRelevance]_vars

\* C22: every reference card of the result view is in exactly one relevance
\* bucket, given by its score alone (in hundredths: high from 70, medium from
\* 40 to below 70, low below 40), and the high relevance count of the summary
\* is the number of references of the whole list with a score of at least 70.
C22_RelevanceBuckets ==
    references_view.rendered =>
        /\ Len(references_view.cards) = Len(DisplaySlice)
        /\ \A i \in DOMAIN references_view.cards :
              LET card == references_view.cards[i]
                  score == similar_texts[i][2]
              IN /\ card.score = score
                 /\ card.relevance_text \in {"Alta", "Media", "Baixa"}
                 /\ card.relevance_text = "Alta" <=> score >= 70
                 /\ card.relevance_text = "Media" <=>
                        (score >= 40 /\ score < 70)
                 /\ card.relevance_text = "Baixa" <=> score < 40
        /\ references_view.high_relevance =
              Cardinality({i \in DOMAIN similar_texts :
                              similar_texts[i][2] >= 70})
        /\ references_view.total = Len(similar_texts)

C22_Witness ==
    /\ references_view.rendered
    /\ Len(similar_texts) > Len(references_view.cards)
    /\ {references_view.cards[i].relevance_text :
           i \in DOMAIN references_view.cards} = {"Alta", "Media", "Baixa"}
    /\ {references_view.cards[i].score : i \in DOMAIN references_view.cards}
          = {39, 40, 69, 70}
    /\ references_view.high_relevance = 2

-----------------------------------------------------------------------------
(* The record sent to the content store and the last result of the session *)

\* C23 as stated: a run in which create_text was invoked ends with
\* 'last_generated' set to the text that run generated; no path sends a
\* record to the content store and leaves the last result of the session
\* as it was.
C23_SentRecordUpdatesLastResult ==
    (RunEnded /\ Called("create_text")) => WroteLastGenerated

-----------------------------------------------------------------------------
(* The buttons of the result view *)

GeneratedButtons ==
    {"approve_generated", "reject_generated", "regenerate_generated"}

GeneratedButtonDisabled(button) ==
    CASE button = "approve_generated" -> buttons.approve_disabled
      [] button = "reject_generated" -> buttons.reject_disabled
      [] OTHER -> FALSE

\* A button of the result view is pressed.  The script runs again with
\* generate_button False: the pipeline and the result view, and with it the
\* handler of the pressed button, are not run; create shows 'last_generated'.
PressGenerated(button) ==
    /\ pc = "done"
    /\ "create" \in permissions
    /\ buttons.rendered
    /\ ~GeneratedButtonDisabled(button)
    /\ FreshLocals
    /\ notices' = IF SessionHas("last_generated")
                  THEN <<"previous_loaded">> ELSE <<>>
    /\ user_topic' = EmptyStr
    /\ search_query' = EmptyStr
    /\ platform' = ""
    /\ progress' = "none"
    /\ outcome' = "none"
    /\ pc' = "idle"
    /\ UNCHANGED <<permissions, session, redis, store, runs_left,
                   topic_input, search_field>>

InitResultView ==
    /\ permissions = {"read", "create", "update"}
    /\ session \in {LoggedIn, LoggedIn @@ ("last_generated" :> EarlierGenerated)}
    /\ redis = [q \in Queries |-> NoneDict]
    /\ store = <<>>
    /\ runs_left = MaxRuns
    /\ IdleScript

NextResultView ==
    \/ Generate(SameTopic)
    \/ GetCachedEmbeddings
    \/ SearchTexts
    \/ TreatTextContent
    \/ FindSimilarTexts
    \/ CacheEmbeddings
    \/ CreatePromptContext
    \/ GenerateTextViaLlm
    \/ SendForApproval
    \/ CreateText
    \/ RenderResult
    \/ RaiseInStep
    \/ \E button \in GeneratedButtons : PressGenerated(button)

SpecResultView == InitResultView /\ [][NextResultView]_vars

\* The session keys other than 'last_generated' and the fields of
\* 'last_generated' other than 'approved'
OutsideApproved(state) ==
    [k \in DOMAIN state |->
        IF k = "last_generated"
        THEN [f \in DOMAIN state[k] \ {"approved"} |-> state[k][f]]
        ELSE state[k]]

\* The approval calls of the content store
ApprovalCalls == {"approve_text", "reject_text", "update_text"}

\* C24: pressing approve or reject in the result view changes nothing in the
\* session but possibly the 'approved' field of 'last_generated', and calls
\* none of approve_text, reject_text, update_text, so that every record a
\* run created keeps is_approved false; the approve button of the view is
\* enabled exactly when send_for_approval returned false, the reject button
\* exactly when it returned true.
C24_ResultViewApprovalIsSessionOnly ==
    /\ [][(\E button \in {"approve_generated", "reject_generated"} :
              PressGenerated(button)) =>
             /\ OutsideApproved(session') = OutsideApproved(session)
             /\ store' = store
             /\ \A i \in DOMAIN calls' : calls'[i].fn \notin ApprovalCalls]_vars
    /\ [](/\ \A i \in DOMAIN calls : calls[i].fn \notin ApprovalCalls
          /\ \A i \in DOMAIN store : ~store[i].is_approved
          /\ buttons.rendered =>
                /\ ~buttons.approve_disabled <=>
                       ReturnsOf("send_for_approval") = {FALSE}
                /\ ~buttons.reject_disabled <=>
                       ReturnsOf("send_for_approval") = {TRUE})

\* A button of the result view was pressed after a run that stored a record
C24_Witness ==
    /\ pc = "idle"
    /\ topic_input = SameTopic
    /\ calls = <<>>
    /\ runs_left < MaxRuns
    /\ Len(store) = 1
    /\ SessionHas("last_generated")
    /\ session["last_generated"].text = store[1].content
    /\ session["last_generated"].approved
    /\ ~store[1].is_approved

-----------------------------------------------------------------------------
(* The two topic validations *)

\* "Gerar Post" was pressed in this script run
GeneratePressed == outcome # "none"

\* C25: the validation chain of create and validate_topic accept exactly the
\* same topics, and the topic create hands to the pipeline is the trimmed
\* topic validate_topic returns.
C25_CreateValidationIsValidateTopic ==
    GeneratePressed =>
        LET verdict == validate_topic(topic_input)
        IN /\ outcome = "validation_failed" <=> ~verdict[1]
           /\ verdict[1] =>
                 /\ user_topic = verdict[2]
                 /\ \A i \in CallsOf("find_similar_texts_via_api") :
                       calls[i].args[1] = verdict[2]
                 /\ \A i \in CallsOf("send_for_approval") :
                       calls[i].args[2] = verdict[2]

C25_Witness ==
    /\ topic_input.pre > 0
    /\ topic_input.post > 0
    /\ topic_input.body = MaxTopicLen
    /\ Called("send_for_approval")
    /\ user_topic # topic_input
    /\ StrLen(user_topic) = MaxTopicLen

-----------------------------------------------------------------------------
(* Texts.main_menu and Texts.update *)

MaxEdited == 1     \* records in the content store when the menu is opened

AllPermissionSets == SUBSET {"read", "create", "update"}

MenuOptions == {"render", "create"}

\* Mutant of AvailableOptions: the menu offers every option
AvailableOptionsUnfiltered == MenuOptions

\* available_options of main_menu
AvailableOptions ==
    (IF "read" \in permissions THEN {"render"} ELSE {})
    \cup (IF "create" \in permissions THEN {"create"} ELSE {})

\* A page is shown and the script owes no rerun
AtPage == AtRest \/ pc \in {"menu", "restricted", "update"}

\* Texts.main_menu with selected_option chosen in the selectbox
main_menu(selected_option) ==
    /\ AtPage
    /\ IF AvailableOptions = {}
       THEN /\ PageScript("menu", <<"no_permissions">>)
            /\ UNCHANGED <<permissions, session, redis, store, runs_left>>
       ELSE /\ selected_option \in AvailableOptions
            /\ IF selected_option = "render" THEN render ELSE create

\* What the user can leave in the theme field of the update page
TopicEdits(theme) ==
    {EmptyStr, theme, [theme EXCEPT !.post = 1],
     Str(1, MinTopicLen, 1, 9), Str(0, MinTopicLen - 1, 0, 9),
     Str(0, MaxTopicLen, 0, 9)}

\* TextsRequest.update_text on the store
StoreUpdate(id, updated_data) ==
    [i \in DOMAIN store |->
        IF store[i].id = id
        THEN [store[i] EXCEPT !.theme = updated_data.theme,
                              !.is_approved = updated_data.is_approved]
        ELSE store[i]]

\* Mutant of has_changes: the form always counts as changed
has_changes_always(new_topic, new_approval_status, record) == TRUE

has_changes(new_topic, new_approval_status, record) ==
    new_topic # record.theme \/ new_approval_status # record.is_approved

\* Texts.update with record i selected and the form filled; confirm_button
\* tells whether this script run was started by "Salvar Alteracoes"
EditText(i, new_topic, new_approval_status, confirm_button) ==
    LET record == store[i]
        changes == has_changes(new_topic, new_approval_status, record)
        verdict == validate_topic(new_topic)
        button_shown == StrTruthy(new_topic) /\ verdict[1] /\ changes
        new_text_data == [theme |-> verdict[2],
                          is_approved |-> new_approval_status]
        fetched == <<GetTexts, Call("get_text", <<Token, record.id>>, record)>>
        preview == IF changes THEN "changes_detected" ELSE "no_changes"
        shown == [page |-> "update",
                  text_data |-> record,
                  new_topic |-> new_topic,
                  new_approval_status |-> new_approval_status,
                  confirm_button |-> confirm_button]
    IN /\ confirm_button => button_shown
       /\ IF confirm_button
          THEN /\ store' = StoreUpdate(record.id, new_text_data)
               /\ TextsScript("update_rerun",
                              Append(fetched,
                                     Call("update_text",
                                          <<Token, record.id, new_text_data>>,
                                          "updated")),
                              <<preview, "updated_success", "updated">>,
                              shown)
          ELSE /\ store' = store
               /\ TextsScript("update", fetched, <<preview>>, shown)

\* Texts.update
update ==
    /\ AtPage \/ pc = "update_rerun"
    /\ IF "update" \notin permissions
       THEN /\ TextsScript("restricted", <<>>, <<>>, NoWidgets)
            /\ store' = store
       ELSE IF ~ListTruthy(store)
            THEN /\ TextsScript("update", <<GetTexts>>, <<>>, NoWidgets)
                 /\ store' = store
            ELSE \E i \in DOMAIN store :
                    \E new_topic \in TopicEdits(store[i].theme),
                       new_approval_status \in BOOLEAN,
                       confirm_button \in BOOLEAN :
                       EditText(i, new_topic, new_approval_status,
                                confirm_button)
    /\ UNCHANGED <<permissions, session, redis, runs_left>>

InitMenu ==
    /\ permissions \in AllPermissionSets
    /\ session = LoggedIn
    /\ redis = [q \in Queries |-> SimilarDict(<<<<Corpus[1], HighScore>>>>)]
    /\ \E n \in 0..MaxEdited :
          \E flags \in [1..n -> BOOLEAN] :
              store = [i \in 1..n |-> StoredRecord(i, flags[i])]
    /\ runs_left = MaxRuns
    /\ IdleScript

NextMenu ==
    \/ \E selected_option \in MenuOptions : main_menu(selected_option)
    \/ update
    \/ Generate(SameTopic)
    \/ GetCachedEmbeddings
    \/ CreatePromptContext
    \/ GenerateTextViaLlm
    \/ SendForApproval
    \/ CreateText
    \/ RenderResult
    \/ RaiseInStep

SpecMenu == InitMenu /\ [][NextMenu]_vars

\* C26: the pipeline runs only with 'create', the library calls get_texts
\* only with 'read', update_text is called only with 'update', and
\* main_menu dispatches to render only with 'read', to create only with
\* 'create', and to neither of them when both permissions are missing.
C26_PermissionGates ==
    /\ [][(\E selected_option \in MenuOptions : main_menu(selected_option)) =>
             /\ pc' \in {"library", "idle", "menu"}
             /\ pc' = "library" => "read" \in permissions
             /\ pc' = "idle" => "create" \in permissions
             /\ ({"read", "create"} \cap permissions = {}) =>
                   (pc' = "menu" /\ calls' = <<>>)]_vars
    /\ [](/\ (pc \in Range(Steps)
              \/ \E i \in DOMAIN calls : calls[i].fn \in Range(Steps)) =>
                "create" \in permissions
          /\ (pc = "library" /\ Called("get_texts")) => "read" \in permissions
          /\ Called("update_text") => "update" \in permissions)

C26_Witness ==
    /\ permissions = {"update"}
    /\ Called("update_text")
    /\ pc = "update_rerun"

-----------------------------------------------------------------------------
(* Staged regeneration data across pages, runs and settings *)

InitRegenerate ==
    /\ permissions = {"read", "create", "update"}
    /\ session \in {LoggedIn, LoggedIn @@ ("last_generated" :> EarlierGenerated)}
    /\ redis = [q \in Queries |-> SimilarDict(<<<<Corpus[1], HighScore>>>>)]
    /\ \E flags \in [1..MaxStored -> BOOLEAN] :
          store = [i \in 1..MaxStored |-> StoredRecord(i, flags[i])]
    /\ runs_left = MaxRuns
    /\ IdleScript

NextRegenerate ==
    \/ OpenLibrary
    \/ \E i \in DOMAIN store : RegenerateFromLibrary(i)
    \/ OpenCreate
    \/ Generate(SameTopic)
    \/ GetCachedEmbeddings
    \/ CreatePromptContext
    \/ GenerateTextViaLlm
    \/ SendForApproval
    \/ CreateText
    \/ RenderResult
    \/ RaiseInStep
    \/ \E button \in GeneratedButtons : PressGenerated(button)
    \/ RenderSettings
    \/ ClearCache
    \/ ResetSession

SpecRegenerate == InitRegenerate /\ [][NextRegenerate]_vars

\* The create page is in regeneration mode
RegenerationMode(state) == DictTruthy(regenerate_data(state))

\* C27: once 'regenerate_text_data' is staged, no step other than the reset
\* of the session or another regenerate changes or removes it: rendering the
\* create page and the steps of a pipeline run, successful or failed, leave
\* the page in regeneration mode with the staged theme as default.
C27_StagedRegenerationStays ==
    [][(/\ SessionHas("regenerate_text_data")
        /\ ~ResetSession
        /\ ~(\E i \in DOMAIN store : RegenerateFromLibrary(i))) =>
          /\ "regenerate_text_data" \in DOMAIN session'
          /\ session'["regenerate_text_data"] = session["regenerate_text_data"]
          /\ RegenerationMode(session')
          /\ default_theme(session') = session["regenerate_text_data"].theme]_vars

\* A successful run that was started with staged data, shown again on the
\* create page
C27_Witness ==
    /\ SessionHas("regenerate_text_data")
    /\ session["regenerate_text_data"].original_id = MaxStored
    /\ SessionHas("last_generated")
    /\ session["last_generated"].text \in {"post A", "post B"}
    /\ Len(store) = MaxStored + 1
    /\ pc = "idle"
    /\ notices = <<"previous_loaded">>

-----------------------------------------------------------------------------
(* Preferences and the reset of the session *)

\* st.session_state.get(key, default)
SessionGet(state, key, default) ==
    IF key \in DOMAIN state THEN state[key] ELSE default

\* The value the user can give a preference widget instead of its default
OtherValue(key) ==
    CASE key = "items_per_page" -> 15
      [] key = "api_timeout" -> 11
      [] key = "debug_mode" -> TRUE
      [] OTHER -> FALSE

Preferences == WithPreferences(UserPreferences, AdvancedSettings)

\* The user changes the widget of a preference: the script runs again and
\* writes the values of all widgets
ChangePreference(key) ==
    /\ pc = "settings"
    /\ LET rendered ==
              WithPreferences(WithPreferences(session, UserPreferences),
                              AdvancedSettings)
       IN session' = [rendered EXCEPT ![key] =
                         IF rendered[key] = Preferences[key]
                         THEN OtherValue(key) ELSE Preferences[key]]
    /\ PageScript("settings", <<>>)
    /\ UNCHANGED <<permissions, redis, store, runs_left>>

InitReset ==
    /\ permissions = {"read", "create", "update"}
    /\ session \in {LoggedIn, LoggedIn @@ ("last_generated" :> EarlierGenerated)}
    /\ redis = [q \in Queries |-> NoneDict]
    /\ store = <<StoredRecord(1, FALSE)>>
    /\ runs_left = MaxRuns
    /\ IdleScript

NextReset ==
    \/ OpenLibrary
    \/ \E i \in DOMAIN store : RegenerateFromLibrary(i)
    \/ OpenCreate
    \/ RenderSettings
    \/ \E key \in DOMAIN Preferences : ChangePreference(key)
    \/ ClearCache
    \/ ResetSession

SpecReset == InitReset /\ [][NextReset]_vars

-----------------------------------------------------------------------------
(* The key of the cache *)

\* The calls of a run that take the key of the cache
KeyedCalls ==
    CallsOf("get_cached_embeddings") \cup CallsOf("search_texts")
        \cup CallsOf("cache_embeddings")

\* C29: the cache lookup, the search and the cache write of one run use one
\* and the same key: the content of the search field as typed when it is not
\* empty, otherwise the trimmed topic.
C29_OneCacheKeyPerRun ==
    LET key == IF search_field # EmptyStr THEN search_field
                                          ELSE Strip(topic_input)
    IN /\ \A i \in KeyedCalls : calls[i].args[1] = key
       /\ pc \in Range(Steps) => search_query = key
       /\ \A i \in CallsOf("cache_embeddings") :
             calls[i].ok => RedisGet(key) = calls[i].args[2]

C29_Witness ==
    /\ search_field.pre > 0
    /\ Strip(search_field) # search_field
    /\ topic_input.pre > 0
    /\ Called("search_texts")
    /\ \E i \in CallsOf("cache_embeddings") :
          /\ calls[i].args[1] = search_field
          /\ calls[1].args[1] = search_field
          /\ RedisGet(search_field) = calls[i].args[2]

-----------------------------------------------------------------------------
(* Saving on the update page *)

\* C30: on the update page update_text is called only when the edited theme
\* passes validate_topic (trimmed length from 5 to 500) and the edited theme
\* or the selected status differs from the record read from the store; the
\* theme sent is the trimmed theme, is_approved sent is the selected status.
C30_UpdateOnlyValidChanges ==
    \A i \in CallsOf("update_text") :
        /\ widgets.page = "update"
        /\ PrecededByReturnOf(i, "get_text", widgets.text_data)
        /\ validate_topic(widgets.new_topic)[1]
        /\ StrLen(Strip(widgets.new_topic)) >= 5
        /\ StrLen(Strip(widgets.new_topic)) <= 500
        /\ \/ widgets.new_topic # widgets.text_data.theme
           \/ widgets.new_approval_status # widgets.text_data.is_approved
        /\ calls[i].args[2] = widgets.text_data.id
        /\ calls[i].args[3] =
              [theme |-> Strip(widgets.new_topic),
               is_approved |-> widgets.new_approval_status]

C30_Witness ==
    /\ pc = "update_rerun"
    /\ widgets.page = "update"
    /\ widgets.new_topic.pre > 0
    /\ widgets.new_approval_status # widgets.text_data.is_approved
    /\ \E i \in CallsOf("update_text") :
          /\ calls[i].args[3].theme # widgets.new_topic
          /\ calls[i].args[3].theme # widgets.text_data.theme
          /\ \E j \in DOMAIN store :
                /\ store[j].id = widgets.text_data.id
                /\ store[j].theme = calls[i].args[3].theme
                /\ store[j].is_approved = widgets.new_approval_status

====
